---- MODULE Spec2Model ----
(***************************************************************************)
(* Model of source/plot_range.py: the range-table builder                  *)
(* create_range_vs_fuel_ratio_dfs, the mileage model                       *)
(* calculate_miles_per_fuel, the efficiency lookup get_mpgde and the       *)
(* linear pipeline of main().                                              *)
(*                                                                         *)
(* Python floats are IEEE-754 binary64 numbers.  The arithmetic below is   *)
(* binary64 arithmetic on positive normal numbers with round-to-nearest,   *)
(* ties-to-even; a number is the record [m, e] of value m * 2^e with       *)
(* 2^52 <= m < 2^53.  The 53-bit significand and the 106-bit products do   *)
(* not fit TLC's integers, so m is a natural number written as a           *)
(* little-endian sequence of base-2^14 limbs without high zero limbs.      *)
(***************************************************************************)
EXTENDS Integers, Sequences, FiniteSets, TLC

(***************************************************************************)
(* Natural numbers of any size                                             *)
(***************************************************************************)

\* Op(v), with v evaluated once (TLC passes operator arguments unevaluated
\* and would otherwise evaluate v again at every use)
Let(v, Op(_)) == CHOOSE r \in {Op(x) : x \in {v}} : TRUE

BASE == 2^14

Limb(a, i) == IF i <= Len(a) THEN a[i] ELSE 0

\* a without its high zero limbs
BigNorm(a) ==
    Let(a, LAMBDA v :
        LET nz == {i \in 1..Len(v) : v[i] /= 0}
        IN  IF nz = {} THEN <<>>
            ELSE SubSeq(v, 1, CHOOSE i \in nz : \A j \in nz : j <= i))

\* n as limbs, 0 <= n < 2^31
BigFromInt(n) ==
    BigNorm(<<n % BASE, (n \div BASE) % BASE, n \div (BASE * BASE)>>)

\* -1, 0 or 1 as a < b, a = b, a > b
BigCmp(a, b) ==
    Let(<<a, b>>, LAMBDA v :
        IF Len(v[1]) < Len(v[2]) THEN -1
        ELSE IF Len(v[1]) > Len(v[2]) THEN 1
        ELSE LET df == {i \in 1..Len(v[1]) : v[1][i] /= v[2][i]}
             IN  IF df = {} THEN 0
                 ELSE LET k == CHOOSE i \in df : \A j \in df : j <= i
                      IN  IF v[1][k] < v[2][k] THEN -1 ELSE 1)

RECURSIVE BigAddFrom(_, _, _, _)
BigAddFrom(a, b, i, carry) ==
    IF i > Len(a) /\ i > Len(b)
    THEN (IF carry = 0 THEN <<>> ELSE <<carry>>)
    ELSE Let(Limb(a, i) + Limb(b, i) + carry, LAMBDA s :
             <<s % BASE>> \o BigAddFrom(a, b, i + 1, s \div BASE))

BigAdd(a, b) == Let(<<a, b>>, LAMBDA v : BigAddFrom(v[1], v[2], 1, 0))

\* a - b, for a >= b
RECURSIVE BigSubFrom(_, _, _, _)
BigSubFrom(a, b, i, borrow) ==
    IF i > Len(a) THEN <<>>
    ELSE Let(a[i] - Limb(b, i) - borrow, LAMBDA s :
             IF s < 0 THEN <<s + BASE>> \o BigSubFrom(a, b, i + 1, 1)
             ELSE <<s>> \o BigSubFrom(a, b, i + 1, 0))

BigSub(a, b) == Let(<<a, b>>, LAMBDA v : BigNorm(BigSubFrom(v[1], v[2], 1, 0)))

\* a * k for 0 <= k <= BASE, from limb i on
RECURSIVE BigMulLimbFrom(_, _, _, _)
BigMulLimbFrom(a, k, i, carry) ==
    IF i > Len(a) THEN (IF carry = 0 THEN <<>> ELSE <<carry>>)
    ELSE Let(a[i] * k + carry, LAMBDA s :
             <<s % BASE>> \o BigMulLimbFrom(a, k, i + 1, s \div BASE))

RECURSIVE BigMulFrom(_, _, _)
BigMulFrom(a, b, j) ==
    IF j > Len(b) THEN <<>>
    ELSE BigAdd(BigMulLimbFrom(a, b[j], 1, 0),
                <<0>> \o BigMulFrom(a, b, j + 1))

BigMul(a, b) == Let(<<a, b>>, LAMBDA v : BigNorm(BigMulFrom(v[1], v[2], 1)))

\* a * 2^k
BigShl(a, k) ==
    Let(<<a, k>>, LAMBDA v :
        IF v[1] = <<>> THEN <<>>
        ELSE [i \in 1..(v[2] \div 14) |-> 0]
             \o BigMulLimbFrom(v[1], 2^(v[2] % 14), 1, 0))

\* floor(a / 2^k)
BigShr(a, k) ==
    Let(<<a, k \div 14, k % 14>>, LAMBDA v :
        IF Len(v[1]) <= v[2] THEN <<>>
        ELSE BigNorm([i \in 1..(Len(v[1]) - v[2]) |->
                 (v[1][v[2] + i] \div 2^v[3])
                 + (Limb(v[1], v[2] + i + 1) % 2^v[3]) * 2^(14 - v[3])]))

\* a mod 2^k /= 0
BigLowNonZero(a, k) ==
    Let(<<a, k \div 14, k % 14>>, LAMBDA v :
        \/ \E i \in 1..v[2] : i <= Len(v[1]) /\ v[1][i] /= 0
        \/ Limb(v[1], v[2] + 1) % 2^v[3] /= 0)

\* bit k of a
BigBit(a, k) == (Limb(a, k \div 14 + 1) \div 2^(k % 14)) % 2

\* number of bits of a limb
IntBitLen(n) == IF n = 0 THEN 0 ELSE 1 + (CHOOSE k \in 0..14 : 2^k <= n /\ n < 2^(k + 1))

BigBitLen(a) ==
    Let(a, LAMBDA v :
        IF v = <<>> THEN 0 ELSE 14 * (Len(v) - 1) + IntBitLen(v[Len(v)]))

(***************************************************************************)
(* binary64 arithmetic (positive normal numbers, round to nearest even)    *)
(***************************************************************************)

\* The binary64 number nearest to n * 2^e (+ a positive fraction of 2^e
\* when sticky); with sticky, n has at least 55 bits.
RoundBig(n, e, sticky) ==
    Let(<<n, e, BigBitLen(n) - 53>>, LAMBDA v :
        IF v[3] <= 0 THEN [m |-> BigShl(v[1], -v[3]), e |-> v[2] + v[3]]
        ELSE Let(BigShr(v[1], v[3]), LAMBDA q :
             LET half == BigBit(v[1], v[3] - 1) = 1
                 rest == sticky \/ BigLowNonZero(v[1], v[3] - 1)
                 up == half /\ (rest \/ BigBit(q, 0) = 1)
             IN  Let(IF up THEN BigAdd(q, <<1>>) ELSE q, LAMBDA r :
                 IF BigBitLen(r) > 53
                 THEN [m |-> BigShr(r, 1), e |-> v[2] + v[3] + 1]
                 ELSE [m |-> r, e |-> v[2] + v[3]])))

\* float(n) of an int n, 0 < n < 2^31
FromInt(n) == RoundBig(BigFromInt(n), 0, FALSE)

\* x * y
FMul(x, y) ==
    Let(<<x, y>>, LAMBDA v :
        RoundBig(BigMul(v[1].m, v[2].m), v[1].e + v[2].e, FALSE))

\* A number below 2^56 as <<low 28 bits, high 28 bits>>, and back
Pair(a) == <<Limb(a, 1) + Limb(a, 2) * BASE, Limb(a, 3) + Limb(a, 4) * BASE>>

Unpair(p) == BigNorm(<<p[1] % BASE, p[1] \div BASE, p[2] % BASE, p[2] \div BASE>>)

\* <<q * 2^n + floor(r * 2^n / d), r * 2^n mod d>> for r < d < 2^53 and
\* q < 2^(56 - n), all three as pairs: binary long division
RECURSIVE DivLoop(_, _, _, _)
DivLoop(r, d, q, n) ==
    IF n = 0 THEN <<q, r>>
    ELSE Let(<<(2 * r[1]) % (BASE * BASE), 2 * r[2] + (2 * r[1]) \div (BASE * BASE),
               (2 * q[1]) % (BASE * BASE), 2 * q[2] + (2 * q[1]) \div (BASE * BASE)>>,
             LAMBDA s :
             IF s[2] > d[2] \/ (s[2] = d[2] /\ s[1] >= d[1])
             THEN DivLoop(IF s[1] >= d[1]
                          THEN <<s[1] - d[1], s[2] - d[2]>>
                          ELSE <<s[1] + BASE * BASE - d[1], s[2] - d[2] - 1>>,
                          d, <<s[3] + 1, s[4]>>, n - 1)
             ELSE DivLoop(<<s[1], s[2]>>, d, <<s[3], s[4]>>, n - 1))

\* DivLoop over 55 bits, in runs of at most 14
DivBits(r, d, q) ==
    Let(DivLoop(r, d, q, 14), LAMBDA a :
    Let(DivLoop(a[2], d, a[1], 14), LAMBDA b :
    Let(DivLoop(b[2], d, b[1], 14), LAMBDA c :
        DivLoop(c[2], d, c[1], 13))))

\* x / y
FDiv(x, y) ==
    Let(<<x.m, Pair(y.m), x.e - y.e>>, LAMBDA v :
        Let(IF BigCmp(v[1], Unpair(v[2])) >= 0
            THEN DivBits(Pair(BigSub(v[1], Unpair(v[2]))), v[2], <<1, 0>>)
            ELSE DivBits(Pair(v[1]), v[2], <<0, 0>>), LAMBDA qr :
            RoundBig(Unpair(qr[1]), v[3] - 55, qr[2] /= <<0, 0>>)))

\* |x - y| <= y / 2^k
FNear(x, y, k) ==
    Let(<<x, y, IF x.e <= y.e THEN x.e ELSE y.e>>, LAMBDA v :
        Let(<<BigShl(v[1].m, v[1].e - v[3]), BigShl(v[2].m, v[2].e - v[3])>>,
            LAMBDA w :
            BigCmp(BigShl(IF BigCmp(w[1], w[2]) >= 0
                          THEN BigSub(w[1], w[2]) ELSE BigSub(w[2], w[1]), k),
                   w[2]) <= 0))

(***************************************************************************)
(* The tables: a DataFrame read with index_col=0 is its index (the row     *)
(* labels, in file order), its column labels and its cells.                *)
(***************************************************************************)
\* None where a float is expected: a record that is no binary64 number
None == [m |-> <<>>, e |-> 0]

Range(sq) == {sq[k] : k \in DOMAIN sq}

\* df.loc[row, col] raises KeyError unless both labels exist
HasLoc(df, row, col) == row \in Range(df.index) /\ col \in df.columns

Loc(df, row, col) == df.cell[row][col]

\* PyRange with the stop taken one step early (range(start, stop - 1, step))
PyRange_short(start, stop, step) ==
    [k \in 1..((stop - 1 - start + step - 1) \div step) |-> start + (k - 1) * step]

\* list(range(start, stop, step)) for step > 0
PyRange(start, stop, step) ==
    [k \in 1..((stop - start + step - 1) \div step) |-> start + (k - 1) * step]

(***************************************************************************)
(* plot_range.py                                                           *)
(***************************************************************************)
\* the literal 264.172: the binary64 number nearest to 264172 / 1000
GALLONS_PER_M3 == FDiv(FromInt(264172), FromInt(1000))

\* get_mpgde answering a default rating instead of None
get_mpgde_default(fuel, truck_fuel_info) ==
    IF HasLoc(truck_fuel_info, fuel, "MPGDE")
    THEN Loc(truck_fuel_info, fuel, "MPGDE")
    ELSE FromInt(1)

get_mpgde(fuel, truck_fuel_info) ==
    IF HasLoc(truck_fuel_info, fuel, "MPGDE")
    THEN Loc(truck_fuel_info, fuel, "MPGDE")
    ELSE None

\* calculate_miles_per_fuel with kg per gallon taken as density * 264.172
calculate_miles_per_fuel_gallons(mpdge_fuel, energy_density_fuel, mass_density_fuel, energy_density_diesel, mass_density_diesel) ==
    Let(FDiv(mpdge_fuel, FMul(mass_density_diesel, GALLONS_PER_M3)),
        LAMBDA miles_per_kg_diesel :
        Let(FDiv(FMul(miles_per_kg_diesel, energy_density_fuel),
                 energy_density_diesel),
            LAMBDA miles_per_kg_fuel :
            <<miles_per_kg_fuel, FMul(miles_per_kg_fuel, mass_density_fuel)>>))

\* calculate_miles_per_fuel with the fuel's own densities as the reference
calculate_miles_per_fuel_selfref(mpdge_fuel, energy_density_fuel, mass_density_fuel, energy_density_diesel, mass_density_diesel) ==
    Let(FDiv(mpdge_fuel, FDiv(mass_density_fuel, GALLONS_PER_M3)),
        LAMBDA miles_per_kg_diesel :
        Let(FDiv(FMul(miles_per_kg_diesel, energy_density_fuel),
                 energy_density_fuel),
            LAMBDA miles_per_kg_fuel :
            <<miles_per_kg_fuel, FMul(miles_per_kg_fuel, mass_density_fuel)>>))

calculate_miles_per_fuel(mpdge_fuel, energy_density_fuel, mass_density_fuel, energy_density_diesel, mass_density_diesel) ==
    Let(FDiv(mpdge_fuel, FDiv(mass_density_diesel, GALLONS_PER_M3)),
        LAMBDA miles_per_kg_diesel :
        Let(FDiv(FMul(miles_per_kg_diesel, energy_density_fuel),
                 energy_density_diesel),
            LAMBDA miles_per_kg_fuel :
            <<miles_per_kg_fuel, FMul(miles_per_kg_fuel, mass_density_fuel)>>))

ENERGY == "Energy Density (MJ / kg)"
MASS == "Mass Density (kg / m^3)"
GVW == "Max Gross Vehicle Weight (kg)"
VAN == "Dry Van Volume (m^3)"

\* RangeRow with the volume computed from miles per kg
RangeRow_volume_per_kg(truck_range, miles, gvw, van) ==
    Let(<<FDiv(FromInt(truck_range), miles[1]),
          FDiv(FromInt(truck_range), miles[1])>>, LAMBDA f :
        [range |-> truck_range,
         mass |-> f[1],
         mass_pct |-> FMul(FDiv(f[1], gvw), FromInt(100)),
         volume |-> f[2],
         volume_pct |-> FMul(FDiv(f[2], van), FromInt(100))])

\* RangeRow with the two capacities exchanged
RangeRow_capacities_swapped(truck_range, miles, gvw, van) ==
    Let(<<FDiv(FromInt(truck_range), miles[1]),
          FDiv(FromInt(truck_range), miles[2])>>, LAMBDA f :
        [range |-> truck_range,
         mass |-> f[1],
         mass_pct |-> FMul(FDiv(f[1], van), FromInt(100)),
         volume |-> f[2],
         volume_pct |-> FMul(FDiv(f[2], gvw), FromInt(100))])

\* one row of a fuel's table (lines 138-146)
RangeRow(truck_range, miles, gvw, van) ==
    Let(<<FDiv(FromInt(truck_range), miles[1]),
          FDiv(FromInt(truck_range), miles[2])>>, LAMBDA f :
        [range |-> truck_range,
         mass |-> f[1],
         mass_pct |-> FMul(FDiv(f[1], gvw), FromInt(100)),
         volume |-> f[2],
         volume_pct |-> FMul(FDiv(f[2], van), FromInt(100))])

\* the table of a fuel (lines 134-152)
FuelTable(range_values, miles, gvw, van) ==
    Let(<<miles, gvw, van>>, LAMBDA v :
        [k \in 1..Len(range_values) |->
            RangeRow(range_values[k], v[1], v[2], v[3])])

(***************************************************************************)
(* The inputs: the three csv files.  Cells hold whole numbers; pandas      *)
(* reads them as int64 and the arithmetic converts them to binary64.       *)
(***************************************************************************)
MaxFuels == 2
NumScenarios == 4

FuelOrder == <<"Diesel", "LNG", "Hydrogen">>
FuelNames == Range(FuelOrder)

Scenarios == 1..NumScenarios

Mpgde(f, s) ==
    IF f = "Diesel" THEN 12 - 2 * s ELSE IF f = "LNG" THEN 6 + s ELSE 7 + 2 * s

EnergyDensity(f, s) ==
    IF f = "Diesel" THEN 45 ELSE IF f = "LNG" THEN 48 + s ELSE 120

MassDensity(f, s) ==
    IF f = "Diesel" THEN 868 - 18 * s ELSE IF f = "LNG" THEN 428 + 11 * s ELSE 71

TruckValue(r, s) ==
    IF r = GVW THEN 3713 + 16287 * s ELSE 90 + 10 * s

Defects == {"none", "no_file", "no_gvw_row", "no_van_row", "no_value_column",
            "no_mpgde_column", "no_energy_column", "no_mass_column"}

\* the fuel-property index: fuel names in any order, none twice
FuelIndexes ==
    {sq \in UNION {[1..n -> FuelNames] : n \in 0..MaxFuels} :
        \A a, b \in DOMAIN sq : a /= b => sq[a] /= sq[b]}

\* a table with the given row and column labels; value[<<r, c>>] is the
\* whole number in row r, column c of the file
Frame(index, columns, value) ==
    [index |-> index, columns |-> columns,
     cell |-> [r \in Range(index) |-> [c \in columns |-> FromInt(value[<<r, c>>])]]]

TruckInfo(defect, s) ==
    Frame(SelectSeq(<<GVW, VAN>>, LAMBDA r :
              /\ ~(defect = "no_gvw_row" /\ r = GVW)
              /\ ~(defect = "no_van_row" /\ r = VAN)),
          IF defect = "no_value_column" THEN {} ELSE {"Value"},
          [rc \in {GVW, VAN} \X {"Value"} |-> TruckValue(rc[1], s)])

TruckFuelInfo(rows, defect, s) ==
    Frame(SelectSeq(FuelOrder, LAMBDA f : f \in rows),
          IF defect = "no_mpgde_column" THEN {} ELSE {"MPGDE"},
          [rc \in FuelNames \X {"MPGDE"} |-> Mpgde(rc[1], s)])

FuelInfo(index, defect, s) ==
    Frame(index,
          {ENERGY, MASS} \ (IF defect = "no_energy_column" THEN {ENERGY}
                            ELSE IF defect = "no_mass_column" THEN {MASS}
                            ELSE {}),
          [rc \in FuelNames \X {ENERGY, MASS} |->
              IF rc[2] = ENERGY THEN EnergyDensity(rc[1], s)
              ELSE MassDensity(rc[1], s)])

(***************************************************************************)
(* main() as a state machine                                               *)
(***************************************************************************)
VARIABLES
    pc,                       \* where main() is
    csv_ok,                   \* the csv files can be read
    truck_info_df, truck_fuel_info_df, fuel_info_df,
    max_gvw, dry_van_volume, range_values,
    pos,                      \* position of the for loop in fuel_info_df.index
    fuel,                     \* the loop variable, "" before the loop
    miles_per_kg_fuel, miles_per_m3_fuel,
    range_vs_fuel_ratio_dfs,  \* the mapping under construction
    shown,                    \* number of times the figure was shown
    err                       \* the exception that ended the run, <<>> if none

inputs == <<csv_ok, truck_info_df, truck_fuel_info_df, fuel_info_df>>
locals == <<max_gvw, dry_van_volume, range_values, pos, fuel,
            miles_per_kg_fuel, miles_per_m3_fuel>>
vars == <<pc, inputs, locals, range_vs_fuel_ratio_dfs, shown, err>>

Empty == [f \in {} |-> <<>>]

Init ==
    /\ pc = "start"
    /\ \E defect \in Defects, s \in Scenarios, index \in FuelIndexes,
          rows \in SUBSET FuelNames :
          /\ csv_ok = (defect /= "no_file")
          /\ truck_info_df = TruckInfo(defect, s)
          /\ truck_fuel_info_df = TruckFuelInfo(rows, defect, s)
          /\ fuel_info_df = FuelInfo(index, defect, s)
    /\ max_gvw = None /\ dry_van_volume = None /\ range_values = <<>>
    /\ pos = 0 /\ fuel = ""
    /\ miles_per_kg_fuel = None /\ miles_per_m3_fuel = None
    /\ range_vs_fuel_ratio_dfs = Empty
    /\ shown = 0
    /\ err = <<>>

\* lines 12-14 and 198-200: pd.read_csv of the data files
ReadCsv ==
    /\ pc = "start"
    /\ csv_ok
    /\ pc' = "call"
    /\ UNCHANGED <<inputs, locals, range_vs_fuel_ratio_dfs, shown, err>>

ReadCsvFails ==
    /\ pc = "start"
    /\ ~csv_ok
    /\ pc' = "fatal"
    /\ err' = <<"FileNotFoundError">>
    /\ UNCHANGED <<inputs, locals, range_vs_fuel_ratio_dfs, shown>>

\* the lookups of lines 108-109, in order
TruckLookups == <<<<GVW, "Value">>, <<VAN, "Value">>>>

\* the first lookup of a list that raises KeyError, 0 if none does
FirstMissing(df, lookups) ==
    LET bad == {k \in DOMAIN lookups : ~HasLoc(df, lookups[k][1], lookups[k][2])}
    IN  IF bad = {} THEN 0 ELSE CHOOSE k \in bad : \A j \in bad : k <= j

\* lines 105-112
EnterBuilder ==
    /\ pc = "call"
    /\ FirstMissing(truck_info_df, TruckLookups) = 0
    /\ range_vs_fuel_ratio_dfs' = Empty
    /\ max_gvw' = Loc(truck_info_df, GVW, "Value")
    /\ dry_van_volume' = Loc(truck_info_df, VAN, "Value")
    /\ range_values' = PyRange(100, 1001, 100)
    /\ pos' = 1
    /\ pc' = "loop"
    /\ UNCHANGED <<inputs, fuel, miles_per_kg_fuel, miles_per_m3_fuel, shown, err>>

\* lines 105-109: the first lookup that fails raises; line 108 has bound
\* max_gvw when it is line 109 that fails
TruckLookupFails ==
    /\ pc = "call"
    /\ FirstMissing(truck_info_df, TruckLookups) /= 0
    /\ pc' = "fatal"
    /\ err' = <<"KeyError", "truck_info_df">>
                 \o TruckLookups[FirstMissing(truck_info_df, TruckLookups)]
    /\ max_gvw' = IF FirstMissing(truck_info_df, TruckLookups) > 1
                   THEN Loc(truck_info_df, GVW, "Value")
                   ELSE max_gvw
    /\ UNCHANGED <<inputs, dry_van_volume, range_values, pos, fuel,
                   miles_per_kg_fuel, miles_per_m3_fuel,
                   range_vs_fuel_ratio_dfs, shown>>

InLoop == pc = "loop" /\ pos <= Len(fuel_info_df.index)

NextFuel == fuel_info_df.index[pos]

\* the lookups of lines 121-126, in order
FuelLookups(f) ==
    <<<<f, ENERGY>>, <<f, MASS>>, <<"Diesel", ENERGY>>, <<"Diesel", MASS>>>>

\* SkipFuel dropping the unrated fuel from the fuel-property table
SkipFuel_drops_row ==
    /\ InLoop
    /\ get_mpgde(NextFuel, truck_fuel_info_df) = None
    /\ fuel' = NextFuel
    /\ fuel_info_df' =
           [fuel_info_df EXCEPT
               !.index = SelectSeq(@, LAMBDA f : f /= NextFuel),
               !.cell = [f \in DOMAIN @ \ {NextFuel} |-> @[f]]]
    /\ UNCHANGED <<pc, csv_ok, truck_info_df, truck_fuel_info_df, max_gvw,
                   dry_van_volume, range_values, pos,
                   miles_per_kg_fuel, miles_per_m3_fuel,
                   range_vs_fuel_ratio_dfs, shown, err>>

\* SkipFuel leaving the loop (break for continue)
SkipFuel_breaks ==
    /\ InLoop
    /\ get_mpgde(NextFuel, truck_fuel_info_df) = None
    /\ fuel' = NextFuel
    /\ pos' = Len(fuel_info_df.index) + 1
    /\ UNCHANGED <<pc, inputs, max_gvw, dry_van_volume, range_values,
                   miles_per_kg_fuel, miles_per_m3_fuel,
                   range_vs_fuel_ratio_dfs, shown, err>>

\* lines 114-118: no efficiency rating, continue
SkipFuel ==
    /\ InLoop
    /\ get_mpgde(NextFuel, truck_fuel_info_df) = None
    /\ fuel' = NextFuel
    /\ pos' = pos + 1
    /\ UNCHANGED <<pc, inputs, max_gvw, dry_van_volume, range_values,
                   miles_per_kg_fuel, miles_per_m3_fuel,
                   range_vs_fuel_ratio_dfs, shown, err>>

\* lines 114-126: a lookup in the fuel-property table raises KeyError
FuelLookupFails ==
    /\ InLoop
    /\ get_mpgde(NextFuel, truck_fuel_info_df) /= None
    /\ FirstMissing(fuel_info_df, FuelLookups(NextFuel)) /= 0
    /\ fuel' = NextFuel
    /\ pc' = "fatal"
    /\ err' = <<"KeyError", "fuel_info_df">>
                 \o FuelLookups(NextFuel)[FirstMissing(fuel_info_df, FuelLookups(NextFuel))]
    /\ UNCHANGED <<inputs, max_gvw, dry_van_volume, range_values, pos,
                   miles_per_kg_fuel, miles_per_m3_fuel,
                   range_vs_fuel_ratio_dfs, shown>>

\* lines 114-155: one fuel's table is built and stored under its name
BuildFuel ==
    /\ InLoop
    /\ get_mpgde(NextFuel, truck_fuel_info_df) /= None
    /\ FirstMissing(fuel_info_df, FuelLookups(NextFuel)) = 0
    /\ \E miles \in {calculate_miles_per_fuel(
                         get_mpgde(NextFuel, truck_fuel_info_df),
                         Loc(fuel_info_df, NextFuel, ENERGY),
                         Loc(fuel_info_df, NextFuel, MASS),
                         Loc(fuel_info_df, "Diesel", ENERGY),
                         Loc(fuel_info_df, "Diesel", MASS))} :
          /\ miles_per_kg_fuel' = miles[1]
          /\ miles_per_m3_fuel' = miles[2]
          /\ range_vs_fuel_ratio_dfs' =
                 [f \in DOMAIN range_vs_fuel_ratio_dfs \cup {NextFuel} |->
                     IF f = NextFuel
                     THEN FuelTable(range_values, miles, max_gvw, dry_van_volume)
                     ELSE range_vs_fuel_ratio_dfs[f]]
    /\ fuel' = NextFuel
    /\ pos' = pos + 1
    /\ UNCHANGED <<pc, inputs, max_gvw, dry_van_volume, range_values, shown, err>>

\* ReturnMapping with the return inside the loop body
ReturnMapping_in_loop ==
    /\ pc = "loop"
    /\ pos > Len(fuel_info_df.index) \/ DOMAIN range_vs_fuel_ratio_dfs /= {}
    /\ pc' = "returned"
    /\ UNCHANGED <<inputs, locals, range_vs_fuel_ratio_dfs, shown, err>>

\* line 157 and line 202: the mapping is returned to main()
ReturnMapping ==
    /\ pc = "loop"
    /\ pos > Len(fuel_info_df.index)
    /\ pc' = "returned"
    /\ UNCHANGED <<inputs, locals, range_vs_fuel_ratio_dfs, shown, err>>

\* line 205: plot_fuel_mass_volume_percentage_stacked, ending in plt.show()
Plot ==
    /\ pc = "returned"
    /\ shown' = shown + 1
    /\ pc' = "done"
    /\ UNCHANGED <<inputs, locals, range_vs_fuel_ratio_dfs, err>>

Next ==
    \/ ReadCsv
    \/ ReadCsvFails
    \/ EnterBuilder
    \/ TruckLookupFails
    \/ SkipFuel
    \/ FuelLookupFails
    \/ BuildFuel
    \/ ReturnMapping
    \/ Plot

Spec == Init /\ [][Next]_vars

(***************************************************************************)
(* Properties                                                              *)
(***************************************************************************)
Returned == pc \in {"returned", "done"}

Keys == DOMAIN range_vs_fuel_ratio_dfs

FuelRows == Range(fuel_info_df.index)

EfficiencyRows == Range(truck_fuel_info_df.index)

\* what calculate_miles_per_fuel returns for a fuel of the mapping
MilesOf(f) ==
    calculate_miles_per_fuel(Loc(truck_fuel_info_df, f, "MPGDE"),
                             Loc(fuel_info_df, f, ENERGY),
                             Loc(fuel_info_df, f, MASS),
                             Loc(fuel_info_df, "Diesel", ENERGY),
                             Loc(fuel_info_df, "Diesel", MASS))

\* C1: a fuel of the fuel-property table without a row in the efficiency
\* table is never a key of the mapping, and no run dies on it: a run that
\* ends in an exception inside the loop ends at a fuel that has a row.
C1_MissingEfficiencySkipped ==
    /\ \A f \in FuelRows \ EfficiencyRows : f \notin Keys
    /\ (pc = "fatal" /\ fuel /= "") => fuel \in EfficiencyRows

C1_Witness ==
    /\ pc = "returned"
    /\ FuelRows \ EfficiencyRows /= {}
    /\ Keys /= {}

\* the keys the run looks up, other than a fuel's row of the efficiency table
NeededKeyMissing ==
    \/ FirstMissing(truck_info_df, TruckLookups) /= 0
    \/ FuelRows \cap EfficiencyRows /= {} /\ "MPGDE" \notin truck_fuel_info_df.columns
    \/ /\ FuelRows \cap EfficiencyRows /= {}
       /\ \/ {ENERGY, MASS} \ fuel_info_df.columns /= {}
          \/ "Diesel" \notin FuelRows

\* C2: when an expected key other than a fuel's efficiency row is missing,
\* the run ends in a lookup failure and no mapping is returned.
C2_MissingKeyIsFatal == NeededKeyMissing => ~Returned

\* C3: every table of the mapping has exactly 10 rows, and row i has
\* truck range 100 * i.
C3_RangeLadder ==
    \A f \in Keys :
        /\ Len(range_vs_fuel_ratio_dfs[f]) = 10
        /\ \A k \in 1..10 : range_vs_fuel_ratio_dfs[f][k].range = 100 * k

C3_Witness == pc = "returned" /\ Cardinality(Keys) = 2

\* Holds(f, row, miles) for every row of every table of the returned mapping
ForAllRows(Holds(_, _, _)) ==
    pc = "returned" =>
        \A f \in Keys :
            Let(MilesOf(f), LAMBDA miles :
                \A k \in DOMAIN range_vs_fuel_ratio_dfs[f] :
                    Holds(f, range_vs_fuel_ratio_dfs[f][k], miles))

ForSomeRow(Holds(_, _, _)) ==
    /\ pc = "returned"
    /\ \E f \in Keys :
           Let(MilesOf(f), LAMBDA miles :
               \E k \in DOMAIN range_vs_fuel_ratio_dfs[f] :
                   Holds(f, range_vs_fuel_ratio_dfs[f][k], miles))

\* C4 as stated: in every row, fuel_mass * milesPerKgFuel and
\* fuel_volume * milesPerM3Fuel equal the truck range.
C4_RoundTripExact ==
    ForAllRows(LAMBDA f, row, miles :
        /\ FMul(row.mass, miles[1]) = FromInt(row.range)
        /\ FMul(row.volume, miles[2]) = FromInt(row.range))

\* C4 amended: in every row, fuel_mass * milesPerKgFuel and
\* fuel_volume * milesPerM3Fuel are within one unit in the last place of
\* the truck range (a relative error of at most 2^-52).
C4_RoundTripWithinUlp ==
    ForAllRows(LAMBDA f, row, miles :
        /\ FNear(FMul(row.mass, miles[1]), FromInt(row.range), 52)
        /\ FNear(FMul(row.volume, miles[2]), FromInt(row.range), 52))

C4_Witness ==
    ForSomeRow(LAMBDA f, row, miles :
        FMul(row.volume, miles[2]) /= FromInt(row.range))

\* C5 as stated: the percentage columns equal 100 * value / capacity.
C5_PercentExact ==
    ForAllRows(LAMBDA f, row, miles :
        /\ row.mass_pct
             = FDiv(FMul(FromInt(100), row.mass), Loc(truck_info_df, GVW, "Value"))
        /\ row.volume_pct
             = FDiv(FMul(FromInt(100), row.volume), Loc(truck_info_df, VAN, "Value")))

\* C5 amended: the percentage columns equal 100 * value / capacity, with
\* the capacities of the truck table's Value column, to within a relative
\* error of 2^-48.
C5_PercentClose ==
    ForAllRows(LAMBDA f, row, miles :
        /\ FNear(row.mass_pct,
                 FDiv(FMul(FromInt(100), row.mass), Loc(truck_info_df, GVW, "Value")),
                 48)
        /\ FNear(row.volume_pct,
                 FDiv(FMul(FromInt(100), row.volume), Loc(truck_info_df, VAN, "Value")),
                 48))

C5_Witness ==
    ForSomeRow(LAMBDA f, row, miles :
        row.mass_pct
          /= FDiv(FMul(FromInt(100), row.mass), Loc(truck_info_df, GVW, "Value")))

\* the loop has just built the table of Diesel, its own reference
DieselBuilt == fuel = "Diesel" /\ "Diesel" \in Keys

DieselMpgde == Loc(truck_fuel_info_df, "Diesel", "MPGDE")

\* C6 as stated: with diesel as its own reference the mass-based result is
\* efficiencyRating * 264.172 / massDensityDiesel and the volume-based
\* result is efficiencyRating * 264.172.
C6_DieselIdentityExact ==
    DieselBuilt =>
        /\ miles_per_kg_fuel
             = FDiv(FMul(DieselMpgde, GALLONS_PER_M3), Loc(fuel_info_df, "Diesel", MASS))
        /\ miles_per_m3_fuel = FMul(DieselMpgde, GALLONS_PER_M3)

\* C6 amended: with diesel as its own reference the two results equal
\* efficiencyRating * 264.172 / massDensityDiesel and
\* efficiencyRating * 264.172 to within a relative error of 2^-48.
C6_DieselIdentityClose ==
    DieselBuilt =>
        /\ FNear(miles_per_kg_fuel,
                 FDiv(FMul(DieselMpgde, GALLONS_PER_M3), Loc(fuel_info_df, "Diesel", MASS)),
                 48)
        /\ FNear(miles_per_m3_fuel, FMul(DieselMpgde, GALLONS_PER_M3), 48)

C6_Witness ==
    /\ DieselBuilt
    /\ miles_per_kg_fuel
         /= FDiv(FMul(DieselMpgde, GALLONS_PER_M3), Loc(fuel_info_df, "Diesel", MASS))
    /\ miles_per_m3_fuel /= FMul(DieselMpgde, GALLONS_PER_M3)

\* MPGDE_f * 264.172 / massDensity_Diesel * energyDensity_f / energyDensity_Diesel
ClosedFormMiles(f) ==
    FDiv(FMul(FDiv(FMul(Loc(truck_fuel_info_df, f, "MPGDE"), GALLONS_PER_M3),
                   Loc(fuel_info_df, "Diesel", MASS)),
              Loc(fuel_info_df, f, ENERGY)),
         Loc(fuel_info_df, "Diesel", ENERGY))

\* C7 as stated: a row's fuel mass is the range divided by the closed form
\* built from the fuel's own MPGDE and the Diesel row, and its fuel volume
\* is that mass divided by the fuel's mass density.
C7_ClosedFormExact ==
    pc = "returned" =>
        \A f \in Keys :
            Let(ClosedFormMiles(f), LAMBDA closed :
                \A k \in DOMAIN range_vs_fuel_ratio_dfs[f] :
                    Let(range_vs_fuel_ratio_dfs[f][k], LAMBDA row :
                        /\ row.mass = FDiv(FromInt(row.range), closed)
                        /\ row.volume = FDiv(row.mass, Loc(fuel_info_df, f, MASS))))

\* C7 amended: the same two equalities to within a relative error of 2^-48.
C7_ClosedFormClose ==
    pc = "returned" =>
        \A f \in Keys :
            Let(ClosedFormMiles(f), LAMBDA closed :
                \A k \in DOMAIN range_vs_fuel_ratio_dfs[f] :
                    Let(range_vs_fuel_ratio_dfs[f][k], LAMBDA row :
                        /\ FNear(row.mass, FDiv(FromInt(row.range), closed), 48)
                        /\ FNear(row.volume,
                                 FDiv(row.mass, Loc(fuel_info_df, f, MASS)), 48)))

C7_Witness ==
    /\ pc = "returned"
    /\ \E f \in Keys \ {"Diesel"} :
           range_vs_fuel_ratio_dfs[f][1].mass /= FDiv(FromInt(100), ClosedFormMiles(f))

\* C8: no step of a run changes the three input tables.
C8_InputsUnchanged == [][inputs' = inputs]_vars

C8_Witness ==
    /\ pc = "done"
    /\ Len(fuel_info_df.index) = 2
    /\ Cardinality(Keys) = 1

\* C9: when the MPGDE column exists and the run returns, the keys of the
\* mapping are exactly the fuels of the fuel-property table that have a row
\* in the efficiency table.
C9_KeysAreRatedFuels ==
    (Returned /\ "MPGDE" \in truck_fuel_info_df.columns)
        => Keys = FuelRows \cap EfficiencyRows

C9_Witness ==
    /\ pc = "returned"
    /\ Len(fuel_info_df.index) >= 2
    /\ fuel_info_df.index[1] \notin Keys
    /\ fuel_info_df.index[2] \in Keys
    /\ EfficiencyRows \ FuelRows /= {}

\* C10: the figure is shown at most once, only after the loop has gone
\* through every fuel and the mapping was returned, and never in a run that
\* ended in an exception.
C10_ShowOnceAfterBuild ==
    /\ shown <= 1
    /\ shown = 1 => (pc = "done" /\ pos > Len(fuel_info_df.index) /\ err = <<>>)
    /\ pc = "fatal" => shown = 0

C10_Witness == pc = "done" /\ shown = 1 /\ Keys /= {}

====
